---- MODULE Spec2Model ----
(***************************************************************************)
(* Model of tensorcircuit's Circuit (src/tensorcircuit/circuit.py): the    *)
(* tensor network built by __init__ and the gate-application methods, and  *)
(* the two extraction methods wavefunction() and amplitude().              *)
(*                                                                         *)
(* Nodes of the network are records of an arena, named by 4-tuples         *)
(*     <<space, tag, idx, kind>>                                           *)
(* space: "live" or "copy" (a node made by tn.copy);                       *)
(* tag:   "qb" boundary node, "g" gate node built by the caller,           *)
(*        "acc" gate node bound by _meta_appy, "m" projector of amplitude; *)
(* kind:  the tensor the node wraps.                                       *)
(* An edge end ("port") is <<node, axis>>.  A connection made by           *)
(* tn.connect is the two-element set of the ports it joins; a port in no   *)
(* connection is dangling.  front holds ports: front[q+1] is the edge      *)
(* object self._front[q] refers to.  An Edge object that tn.connect has    *)
(* replaced (a stale reference) is a port that is no longer dangling, and  *)
(* tn.connect refuses it.                                                  *)
(***************************************************************************)
EXTENDS Integers, Sequences, FiniteSets, TLC

VARIABLES nqubits, nodes, front, conn, result

vars == <<nqubits, nodes, front, conn, result>>

\* Largest qubit count constructed.
MaxQubits == 4
\* Gate applications stop once the network holds this many nodes.
MaxNodes == 5

----------------------------------------------------------------------------
(* Tensors                                                                 *)

NoNode == <<"live", "none", 0, "none">>

Kind(nd) == nd[4]

\* Rank of the tensor of each kind of node.
Rank(kind) ==
  CASE kind = "end" -> 2
    [] kind = "mid" -> 3
    [] kind = "x" -> 2
    [] kind = "h" -> 2
    [] kind = "cnot" -> 4
    [] kind = "p0" -> 1
    [] kind = "p1" -> 1
    [] OTHER -> 0

\* Dimension of an axis: the boundary tensors have shape (2,1) and (2,1,1),
\* every other axis has dimension 2.
Dim(kind, axis) ==
  IF kind \in {"end", "mid"} /\ axis >= 1 THEN 1 ELSE 2

\* BoundaryTensor with the two entries exchanged (the state |1>).
BoundaryTensorOne(ix) == IF ix[1] = 1 THEN 1 ELSE 0

\* Entry of the boundary tensors np.array([[1.0],[0]]) and [[[1.0]],[[0]]].
BoundaryTensor(ix) == IF ix[1] = 0 THEN 1 ELSE 0

\* Entry of the projector np.array([1,0]) ("p0") or np.array([0,1]) ("p1").
ProjectorTensor(kind, ix) ==
  IF kind = "p0" THEN (IF ix[1] = 0 THEN 1 ELSE 0)
  ELSE (IF ix[1] = 1 THEN 1 ELSE 0)

\* Entry of a gate tensor, the gate matrix reshaped to [2]*rank.  "h" is the
\* Hadamard matrix times sqrt(2), which keeps the entries integers.
GateTensor(kind, ix) ==
  CASE kind = "x" -> IF ix[1] # ix[2] THEN 1 ELSE 0
    [] kind = "h" -> IF ix[1] = 1 /\ ix[2] = 1 THEN -1 ELSE 1
    [] kind = "cnot" ->
         IF ix[3] = ix[1] /\ ix[4] = (ix[2] + ix[1]) % 2 THEN 1 ELSE 0
    [] OTHER -> 0

Tensor(kind, ix) ==
  CASE kind \in {"end", "mid"} -> BoundaryTensor(ix)
    [] kind \in {"p0", "p1"} -> ProjectorTensor(kind, ix)
    [] OTHER -> GateTensor(kind, ix)

----------------------------------------------------------------------------
(* Edges: tn.Node.get_edge, Edge.is_dangling, tn.connect                   *)

Ports(nd) == {<<nd, a>> : a \in 0 .. Rank(Kind(nd)) - 1}

Range(s) == {s[i] : i \in 1 .. Len(s)}

IsDangling(cn, p) == \A c \in cn : p \notin c

\* tn.connect(p, q) raises ValueError unless both edges are dangling,
\* distinct and of the same dimension.
CanConnect(cn, p, q) ==
  /\ IsDangling(cn, p)
  /\ IsDangling(cn, q)
  /\ p # q
  /\ Dim(Kind(p[1]), p[2]) = Dim(Kind(q[1]), q[2])

Connect(cn, p, q) == cn \cup {{p, q}}

----------------------------------------------------------------------------
(* Circuit.__init__                                                        *)

\* The boundary node of qubit x (0-based): rank 2 at both ends, rank 3 inside.
BoundaryNode(n, x) ==
  <<"live", "qb", x, IF x = 0 \/ x = n - 1 THEN "end" ELSE "mid">>

InitNodes(n) == [i \in 1 .. n |-> BoundaryNode(n, i - 1)]

\* InitConn without the connection of the last node: the n < 3 branch taken
\* for every n.
InitConnShort(n) ==
  LET nd == InitNodes(n)
  IN {{<<nd[i + 1], 2>>, <<nd[i + 2], 1>>} : i \in 1 .. n - 3}
       \cup {{<<nd[1], 1>>, <<nd[2], 1>>}}

\* The routing edges: the loop over the middle nodes, then the two ends.
InitConn(n) ==
  LET nd == InitNodes(n)
      middle == {{<<nd[i + 1], 2>>, <<nd[i + 2], 1>>} : i \in 1 .. n - 3}
      ends == IF n < 3
              THEN {{<<nd[1], 1>>, <<nd[2], 1>>}}
              ELSE {{<<nd[1], 1>>, <<nd[2], 1>>},
                    {<<nd[n], 1>>, <<nd[n - 1], 2>>}}
  IN middle \cup ends

InitFront(n) == [i \in 1 .. n |-> <<InitNodes(n)[i], 0>>]

NoResult ==
  [op |-> "init", gate |-> NoNode, index |-> <<>>, bits |-> <<>>,
   status |-> "ok", value |-> <<>>]

Init ==
  /\ nqubits \in 2 .. MaxQubits
  /\ nodes = InitNodes(nqubits)
  /\ front = InitFront(nqubits)
  /\ conn = InitConn(nqubits)
  /\ result = NoResult

----------------------------------------------------------------------------
(* Gate application.  A call works on the circuit c = [nodes, front, conn] *)
(* and ends in an outcome: the circuit as the call left it and "ok" or the *)
(* exception that ended it.  Qubit indices are 0-based as in the source.   *)

Circuit == [nodes |-> nodes, front |-> front, conn |-> conn]

Outcome(ns, fr, cn, status) ==
  [nodes |-> ns, front |-> fr, conn |-> cn, status |-> status]

\* gate.get_edge(a) raises IndexError when the tensor has no axis a.
HasEdge(gate, a) == a < Rank(Kind(gate))

SetFront(fr, ind, p) == [fr EXCEPT ![ind + 1] = p]

\* Circuit.apply_single_gate
ApplySingleGate(c, gate, index) ==
  LET e0 == <<gate, 0>>
      f == c.front[index + 1]
  IN IF ~CanConnect(c.conn, e0, f)
     THEN Outcome(c.nodes, c.front, c.conn, "ValueError")
     ELSE LET cn1 == Connect(c.conn, e0, f)
          IN IF ~HasEdge(gate, 1)
             THEN Outcome(c.nodes, c.front, cn1, "IndexError")
             ELSE Outcome(Append(c.nodes, gate),
                          SetFront(c.front, index, <<gate, 1>>), cn1, "ok")

\* ApplyDoubleGate with the two output edges exchanged in front.
ApplyDoubleGateCrossed(c, gate, index1, index2) ==
  LET f1 == c.front[index1 + 1]
      f2 == c.front[index2 + 1]
      cn1 == Connect(c.conn, <<gate, 0>>, f1)
  IN IF index1 = index2
     THEN Outcome(c.nodes, c.front, c.conn, "AssertionError")
     ELSE IF ~CanConnect(c.conn, <<gate, 0>>, f1)
               \/ ~CanConnect(cn1, <<gate, 1>>, f2)
     THEN Outcome(c.nodes, c.front, c.conn, "ValueError")
     ELSE Outcome(Append(c.nodes, gate),
                  SetFront(SetFront(c.front, index1, <<gate, 3>>),
                           index2, <<gate, 2>>),
                  Connect(cn1, <<gate, 1>>, f2), "ok")

\* Circuit.apply_double_gate
ApplyDoubleGate(c, gate, index1, index2) ==
  LET e0 == <<gate, 0>>
      e1 == <<gate, 1>>
      f1 == c.front[index1 + 1]
      f2 == c.front[index2 + 1]
  IN IF index1 = index2
     THEN Outcome(c.nodes, c.front, c.conn, "AssertionError")
     ELSE IF ~CanConnect(c.conn, e0, f1)
     THEN Outcome(c.nodes, c.front, c.conn, "ValueError")
     ELSE LET cn1 == Connect(c.conn, e0, f1)
          IN IF ~HasEdge(gate, 1)
             THEN Outcome(c.nodes, c.front, cn1, "IndexError")
             ELSE IF ~CanConnect(cn1, e1, f2)
             THEN Outcome(c.nodes, c.front, cn1, "ValueError")
             ELSE LET cn2 == Connect(cn1, e1, f2)
                      fr1 == SetFront(c.front, index1, <<gate, 2>>)
                  IN IF ~HasEdge(gate, 2)
                     THEN Outcome(c.nodes, c.front, cn2, "IndexError")
                     ELSE IF ~HasEdge(gate, 3)
                     THEN Outcome(c.nodes, fr1, cn2, "IndexError")
                     ELSE Outcome(Append(c.nodes, gate),
                                  SetFront(fr1, index2, <<gate, 3>>),
                                  cn2, "ok")

\* The loop of Circuit.apply_general_gate from position i (0-based) on.
RECURSIVE GeneralLoop(_, _, _, _, _)
GeneralLoop(c, gate, index, i, noe) ==
  IF i >= noe
  THEN Outcome(Append(c.nodes, gate), c.front, c.conn, "ok")
  ELSE LET ind == index[i + 1]
           e == <<gate, i>>
           f == c.front[ind + 1]
       IN IF ~HasEdge(gate, i)
          THEN Outcome(c.nodes, c.front, c.conn, "IndexError")
          ELSE IF ~CanConnect(c.conn, e, f)
          THEN Outcome(c.nodes, c.front, c.conn, "ValueError")
          ELSE LET cn1 == Connect(c.conn, e, f)
               IN IF ~HasEdge(gate, i + noe)
                  THEN Outcome(c.nodes, c.front, cn1, "IndexError")
                  ELSE GeneralLoop(
                         [nodes |-> c.nodes,
                          front |-> SetFront(c.front, ind, <<gate, i + noe>>),
                          conn |-> cn1],
                         gate, index, i + 1, noe)

\* ApplyGeneralGate without the assertion on the targets.
ApplyGeneralGateUnchecked(c, gate, index) ==
  GeneralLoop(c, gate, index, 0, Len(index))

\* ApplyGeneralGate pairing the gate's edges with the targets in reverse.
ApplyGeneralGateReversed(c, gate, index) ==
  IF Cardinality(Range(index)) # Len(index)
  THEN Outcome(c.nodes, c.front, c.conn, "AssertionError")
  ELSE GeneralLoop(c, gate,
                   [i \in 1 .. Len(index) |-> index[Len(index) + 1 - i]],
                   0, Len(index))

\* Circuit.apply_general_gate
ApplyGeneralGate(c, gate, index) ==
  IF Cardinality(Range(index)) # Len(index)
  THEN Outcome(c.nodes, c.front, c.conn, "AssertionError")
  ELSE GeneralLoop(c, gate, index, 0, Len(index))

----------------------------------------------------------------------------
(* Contraction: tn.contractors.greedy.  The value of a network for given   *)
(* values on its dangling edges is the sum, over the values of the         *)
(* connected edges, of the product of the tensor entries.  The network is  *)
(* the node list ns with the connections cn.  Edges are numbered: the edge *)
(* of port a of node ns[k] has the number of that port, or of the port it  *)
(* is joined to when that is smaller.                                      *)

PortNum(k, a) == (k - 1) * Rank("cnot") + a + 1

EdgeNum(ns, cn, k, a) ==
  LET p == <<ns[k], a>>
      cs == {c \in cn : p \in c}
  IN IF cs = {} THEN PortNum(k, a)
     ELSE LET q == CHOOSE q \in UNION cs : q # p
              far == {i \in 1 .. Len(ns) : ns[i] = q[1]}
          IN IF far = {} THEN PortNum(k, a)
             ELSE LET kq == CHOOSE i \in far : TRUE
                  IN IF PortNum(kq, q[2]) < PortNum(k, a)
                     THEN PortNum(kq, q[2]) ELSE PortNum(k, a)

RECURSIVE EdgeRow(_, _, _, _)
EdgeRow(ns, cn, k, a) ==
  IF a >= Rank(Kind(ns[k])) THEN <<>>
  ELSE <<EdgeNum(ns, cn, k, a)>> \o EdgeRow(ns, cn, k, a + 1)

\* The edge numbers of the network: em[k][a + 1] for port a of ns[k].
RECURSIVE EdgeRows(_, _, _)
EdgeRows(ns, cn, k) ==
  IF k > Len(ns) THEN <<>>
  ELSE <<EdgeRow(ns, cn, k, 0)>> \o EdgeRows(ns, cn, k + 1)

EdgeMap(ns, cn) == EdgeRows(ns, cn, 1)

\* The edge numbers of the ports `out`, in order.
RECURSIVE EdgesOf(_, _, _, _)
EdgesOf(ns, em, out, i) ==
  IF i > Len(out) THEN <<>>
  ELSE LET k == CHOOSE j \in 1 .. Len(ns) : ns[j] = out[i][1]
       IN <<em[k][out[i][2] + 1]>> \o EdgesOf(ns, em, out, i + 1)

\* The row-major index (1-based) of the entry with the values asg on the
\* axes oe, the first axis the most significant.
RECURSIVE IndexOf(_, _, _, _)
IndexOf(oe, asg, i, acc) ==
  IF i > Len(oe) THEN acc + 1
  ELSE IndexOf(oe, asg, i + 1, 2 * acc + asg[oe[i]])

\* One node of the sum.  s is a partial term: values asg for the edges of
\* the nodes before ns[k], and the product w of their tensor entries.  The
\* result is its extensions by values for the other edges of ns[k] (within
\* their dimension) that give the tensor of ns[k] a nonzero entry.
TermsAt(ns, em, k, s) ==
  LET kind == Kind(ns[k])
      axes == 1 .. Rank(kind)
      free == {em[k][a] : a \in axes} \ DOMAIN s.asg
      thin == {em[k][a] : a \in {b \in axes : Dim(kind, b - 1) = 1}}
      Entry(asg) == Tensor(kind, [a \in axes |-> asg[em[k][a]]])
      ext == {x @@ [e \in free \cap thin |-> 0] @@ s.asg :
                x \in [free \ thin -> {0, 1}]}
  IN {[asg |-> y, w |-> s.w * Entry(y)] : y \in {z \in ext : Entry(z) # 0}}

\* The terms of the sum: every assignment of values to the edges that
\* gives each tensor a nonzero entry, with the product of the entries.
Terms(ns, em) ==
  LET S[k \in 0 .. Len(ns)] ==
        IF k = 0 THEN {[asg |-> [e \in {} |-> 0], w |-> 1]}
        ELSE UNION {TermsAt(ns, em, k, s) : s \in S[k - 1]}
  IN S[Len(ns)]

RECURSIVE SumOf(_)
SumOf(T) ==
  IF T = {} THEN 0
  ELSE LET t == CHOOSE x \in T : TRUE IN t.w + SumOf(T \ {t})

\* The dangling edges of a network.
DanglingEdges(ns, cn) == UNION {Ports(nd) : nd \in Range(ns)} \ UNION cn

Pow2(n) == IF n = 0 THEN 1 ELSE 2 ^ n

\* The tensor greedy() returns with its axes in the order of the edges `out`,
\* flattened in row-major order.
Dense(ns, cn, out) ==
  LET em == EdgeMap(ns, cn)
      oe == EdgesOf(ns, em, out, 1)
      T == Terms(ns, em)
  IN [j \in 1 .. Pow2(Len(out)) |->
        SumOf({t \in T : IndexOf(oe, t.asg, 1, 0) = j})]

----------------------------------------------------------------------------
(* Circuit._copy, Circuit.wavefunction, Circuit.amplitude                  *)

\* CopyNode without the copy: the snapshot is the live network itself.
CopyNodeAlias(nd) == nd

CopyNode(nd) == <<"copy", nd[2], nd[3], nd[4]>>

CopyPort(p) == <<CopyNode(p[1]), p[2]>>

\* tn.copy(self._nodes) and the translation of nodes and front through
\* ndict and edict.  edict holds the current edges of the copied nodes: a
\* front entry that is not one of them is a KeyError.
Copy(c) ==
  LET own == Range(c.nodes)
      inside == {x \in c.conn : \A p \in x : p[1] \in own}
      known == \A i \in 1 .. Len(c.front) :
                 /\ c.front[i][1] \in own
                 /\ IsDangling(c.conn, c.front[i])
  IN [nodes |-> [i \in 1 .. Len(c.nodes) |-> CopyNode(c.nodes[i])],
      front |-> [i \in 1 .. Len(c.front) |-> CopyPort(c.front[i])],
      conn |-> {{CopyPort(p) : p \in x} : x \in inside},
      status |-> IF known THEN "ok" ELSE "KeyError"]

\* The connections of the circuit c after a call has worked on a network
\* with connections cn and contracted the nodes ns: those, of the circuit's
\* own and of that network, that join a node of the circuit and no
\* contracted node.  (The rest belongs to the snapshot, which is dropped.)
Remaining(c, cn, ns) ==
  LET own == Range(c.nodes)
      gone == Range(ns)
  IN {x \in c.conn \cup cn :
        /\ \A p \in x : p[1] \notin gone
        /\ \E p \in x : p[1] \in own}

Extracted(status, value, cn) ==
  [status |-> status, value |-> value, conn |-> cn]

\* Circuit.wavefunction
Wavefunction(c) ==
  LET cp == Copy(c)
  IN IF cp.status # "ok"
     THEN Extracted(cp.status, <<>>, c.conn)
     ELSE IF Range(cp.front) # DanglingEdges(cp.nodes, cp.conn)
     THEN Extracted("ValueError", <<>>, Remaining(c, cp.conn, <<>>))
     ELSE Extracted("ok", Dense(cp.nodes, cp.conn, cp.front),
                    Remaining(c, cp.conn, cp.nodes))

\* Projector with the two projectors exchanged.
ProjectorSwapped(i, s) == <<"copy", "m", i, IF s = "1" THEN "p0" ELSE "p1">>

\* The projector amplitude() builds for character s at position i (0-based).
Projector(i, s) == <<"copy", "m", i, IF s = "1" THEN "p1" ELSE "p0">>

\* Projectors with a projector for every character: whatever is not '1' is
\* taken as '0'.
ProjectorsLenient(l, i) ==
  [j \in 1 .. Len(l) - i |-> Projector(i + j - 1, l[i + j])]

\* The first loop of amplitude(): one projector per '1' or '0' of l.
RECURSIVE Projectors(_, _)
Projectors(l, i) ==
  IF i >= Len(l) THEN <<>>
  ELSE IF l[i + 1] = "1" \/ l[i + 1] = "0"
       THEN <<Projector(i, l[i + 1])>> \o Projectors(l, i + 1)
       ELSE Projectors(l, i + 1)

\* The second loop of amplitude() from position i (0-based) on: the
\* connections of the snapshot after it, and how it ended.
RECURSIVE MeasureLoop(_, _, _, _, _)
MeasureLoop(cn, l, d_edges, ms, i) ==
  IF i >= Len(l) THEN [conn |-> cn, status |-> "ok"]
  ELSE IF i >= Len(d_edges) \/ i >= Len(ms)
       THEN [conn |-> cn, status |-> "IndexError"]
       ELSE IF ~CanConnect(cn, d_edges[i + 1], <<ms[i + 1], 0>>)
            THEN [conn |-> cn, status |-> "ValueError"]
            ELSE MeasureLoop(Connect(cn, d_edges[i + 1], <<ms[i + 1], 0>>),
                             l, d_edges, ms, i + 1)

\* Circuit.amplitude
Amplitude(c, n, l) ==
  IF Len(l) # n
  THEN Extracted("AssertionError", <<>>, c.conn)
  ELSE LET cp == Copy(c)
           ms == Projectors(l, 0)
           m == MeasureLoop(cp.conn, l, cp.front, ms, 0)
           no == cp.nodes \o ms
           open == DanglingEdges(no, m.conn)
       IN IF cp.status # "ok"
          THEN Extracted(cp.status, <<>>, c.conn)
          ELSE IF m.status # "ok"
          THEN Extracted(m.status, <<>>, Remaining(c, m.conn, <<>>))
          ELSE IF Cardinality(open) > 1
          THEN Extracted("ValueError", <<>>, Remaining(c, m.conn, <<>>))
          ELSE Extracted("ok",
                         Dense(no, m.conn,
                               IF open = {} THEN <<>>
                               ELSE <<CHOOSE p \in open : TRUE>>),
                         Remaining(c, m.conn, no))

----------------------------------------------------------------------------
(* Calls and their inputs                                                  *)

Qubits == 0 .. nqubits - 1

\* k pairwise-distinct target qubits, in every order.
Targets(k) ==
  {t \in [1 .. k -> Qubits] : \A i, j \in 1 .. k : i # j => t[i] # t[j]}

\* The gate tensors of k qubits (rank 2k) the calls are given.
Kinds(k) == IF k = 1 THEN {"x", "h"} ELSE {"cnot"}

NodesInUse == Range(nodes) \cup {p[1] : p \in UNION conn}

\* A gate node the caller has just built, gates.<kind>(): a node that is
\* nowhere in the network yet.
NewGate(kind) ==
  <<"live", "g", 1 + Cardinality({nd \in NodesInUse : nd[2] = "g"}), kind>>

\* The gate node _meta_appy bound to the accessor of this name when the
\* circuit was constructed: one node per name, lower case (0) and upper (1).
BoundGate(kind, upper) == <<"live", "acc", upper, kind>>

Bits == {"0", "1"}

BitStrings == [1 .. nqubits -> Bits]

\* The bitstrings amplitude() is called with: all '0', all '1', and a
\* single '1' at each position.
CalledStrings ==
  {b \in BitStrings :
     Cardinality({i \in 1 .. nqubits : b[i] = "1"}) \in {0, 1, nqubits}}

\* Arguments amplitude() must refuse: a character that is neither '0' nor
\* '1' at any one position among '0's or among '1's, or a length other than
\* nqubits.
BadStrings ==
  {[i \in 1 .. nqubits |-> IF i = j THEN "a" ELSE b] :
     j \in 1 .. nqubits, b \in Bits}
    \cup {[i \in 1 .. nqubits - 1 |-> "0"], [i \in 1 .. nqubits + 1 |-> "0"]}

GateCall(op, gate, index, outcome) ==
  LET out == outcome
  IN /\ Cardinality(NodesInUse) < MaxNodes
     /\ nodes' = out.nodes
     /\ front' = out.front
     /\ conn' = out.conn
     /\ result' = [op |-> op, gate |-> gate, index |-> index, bits |-> <<>>,
                   status |-> out.status, value |-> <<>>]
     /\ UNCHANGED nqubits

ApplySingleGateCall(gate, index) ==
  GateCall("apply_single_gate", gate, <<index>>,
           ApplySingleGate(Circuit, gate, index))

ApplyDoubleGateCall(gate, index1, index2) ==
  GateCall("apply_double_gate", gate, <<index1, index2>>,
           ApplyDoubleGate(Circuit, gate, index1, index2))

ApplyGeneralGateCall(gate, index) ==
  GateCall("apply_general_gate", gate, index,
           ApplyGeneralGate(Circuit, gate, index))

\* circuit.x(...), circuit.CNOT(...): partial(self.apply_general_gate, node).
AccessorCall(kind, upper, index) ==
  GateCall("accessor", BoundGate(kind, upper), index,
           ApplyGeneralGate(Circuit, BoundGate(kind, upper), index))

ExtractCall(op, l, extracted) ==
  LET out == extracted
  IN /\ conn' = out.conn
     /\ result' = [op |-> op, gate |-> NoNode, index |-> <<>>, bits |-> l,
                   status |-> out.status, value |-> out.value]
     /\ UNCHANGED <<nqubits, nodes, front>>

WavefunctionCall == ExtractCall("wavefunction", <<>>, Wavefunction(Circuit))

AmplitudeCall(l) == ExtractCall("amplitude", l, Amplitude(Circuit, nqubits, l))

\* Gate applications that meet the preconditions: a gate node built for
\* the call, of rank twice the number of targets, on distinct targets.
ValidGateCall ==
  \/ \E kind \in Kinds(1), q \in Qubits :
       ApplySingleGateCall(NewGate(kind), q)
  \/ \E kind \in Kinds(2), t \in Targets(2) :
       ApplyDoubleGateCall(NewGate(kind), t[1], t[2])
  \/ \E k \in 1 .. 2 : \E kind \in Kinds(k), t \in Targets(k) :
       ApplyGeneralGateCall(NewGate(kind), t)

\* Gate applications with a tensor whose rank is not twice the number of
\* targets.
MismatchedGateCall ==
  \/ \E kind \in Kinds(2), q \in Qubits :
       ApplySingleGateCall(NewGate(kind), q)
  \/ \E kind \in Kinds(1), t \in Targets(2) :
       ApplyDoubleGateCall(NewGate(kind), t[1], t[2])
  \/ \E k \in 1 .. 2 : \E kind \in Kinds(3 - k), t \in Targets(k) :
       ApplyGeneralGateCall(NewGate(kind), t)

\* Gate applications with a repeated target.
DuplicateGateCall ==
  \/ \E kind \in Kinds(2), q \in Qubits :
       ApplyDoubleGateCall(NewGate(kind), q, q)
  \/ \E kind \in Kinds(2), q \in Qubits :
       ApplyGeneralGateCall(NewGate(kind), <<q, q>>)

\* The circuit under calls that meet every precondition.
Next ==
  \/ ValidGateCall
  \/ WavefunctionCall
  \/ \E l \in CalledStrings : AmplitudeCall(l)

Spec == Init /\ [][Next]_vars

\* The circuit under calls whose arguments must be refused.
NextArg ==
  \/ ValidGateCall
  \/ DuplicateGateCall
  \/ WavefunctionCall
  \/ \E l \in BadStrings : AmplitudeCall(l)

SpecArg == Init /\ [][NextArg]_vars

\* The circuit under gate tensors of the wrong rank.
NextErr ==
  \/ ValidGateCall
  \/ MismatchedGateCall
  \/ WavefunctionCall

SpecErr == Init /\ [][NextErr]_vars

\* The circuit driven through the named accessors.
NextAcc ==
  \/ \E k \in 1 .. 2 : \E kind \in Kinds(k), upper \in 0 .. 1, t \in Targets(k) :
       AccessorCall(kind, upper, t)
  \/ WavefunctionCall

SpecAcc == Init /\ [][NextAcc]_vars

----------------------------------------------------------------------------
(* Properties                                                              *)

GateOps == {"apply_single_gate", "apply_double_gate", "apply_general_gate"}

ExtractOps == {"wavefunction", "amplitude"}

\* int(b, 2): the first character is the most significant bit.
RECURSIVE BitValue(_)
BitValue(b) ==
  IF b = <<>> THEN 0
  ELSE 2 * BitValue(SubSeq(b, 1, Len(b) - 1))
         + (IF b[Len(b)] = "1" THEN 1 ELSE 0)

\* C1: under gate applications that meet their preconditions, front has
\* exactly nqubits entries, each a dangling edge of a node in nodes, and the
\* nodes in nodes have no dangling edge besides these (so every routing edge
\* is connected from construction on, for every qubit count).
FrontIsTheDanglingEdges ==
  /\ Len(front) = nqubits
  /\ Cardinality(Range(front)) = nqubits
  /\ \A i \in 1 .. Len(front) :
       /\ front[i][1] \in Range(nodes)
       /\ front[i] \in Ports(front[i][1])
       /\ IsDangling(conn, front[i])
  /\ \A nd \in Range(nodes) : \A p \in Ports(nd) :
       IsDangling(conn, p) => p \in Range(front)

\* C1 witness: four qubits (two interior boundary nodes) with a gate applied.
FrontAfterGateOnFour ==
  /\ nqubits = 4
  /\ Len(nodes) = 5
  /\ result.op \in GateOps
  /\ result.status = "ok"

\* C2: a step of apply_general_gate with a fresh rank-2k gate on k distinct
\* targets succeeds, joins the gate's edge i to the edge front held for
\* target i before the call and makes no other connection, puts the gate's
\* edge k+i in front for target i, leaves front alone for every other qubit,
\* keeps every earlier connection, and appends the gate to nodes.
GeneralGatePostcondition ==
  [][result'.op = "apply_general_gate" =>
       LET g == result'.gate
           ix == result'.index
           k == Len(ix)
       IN /\ result'.status = "ok"
          /\ conn \subseteq conn'
          /\ conn' \ conn = {{<<g, i - 1>>, front[ix[i] + 1]} : i \in 1 .. k}
          /\ Cardinality(conn' \ conn) = k
          /\ \A i \in 1 .. k : front'[ix[i] + 1] = <<g, k + i - 1>>
          /\ \A q \in Qubits : q \notin Range(ix) => front'[q + 1] = front[q + 1]
          /\ Len(front') = Len(front)
          /\ nodes' = Append(nodes, g)]_vars

\* C2 witness: apply_general_gate has applied a two-qubit gate to a circuit
\* that already held a gate.
GeneralGateApplied ==
  /\ result.op = "apply_general_gate"
  /\ result.status = "ok"
  /\ Len(result.index) = 2
  /\ Len(nodes) >= nqubits + 2

\* C3: a gate application whose tensor rank is not twice the number of
\* targets fails, and leaves nodes, front and every connection as they were.
MismatchedGateRefused ==
  [][(/\ result'.op \in GateOps
      /\ Rank(Kind(result'.gate)) # 2 * Len(result'.index))
       => /\ result'.status # "ok"
          /\ nodes' = nodes
          /\ front' = front
          /\ conn' = conn]_vars

\* C3 witness: apply_general_gate given a rank-2 tensor and two targets has
\* ended in IndexError with the tensor's edge 0 already connected.
MismatchedGateHalfConnected ==
  /\ result.op = "apply_general_gate"
  /\ Len(result.index) = 2
  /\ Rank(Kind(result.gate)) = 2
  /\ result.status = "IndexError"
  /\ ~IsDangling(conn, <<result.gate, 0>>)

\* C4: apply_double_gate and apply_general_gate with a repeated target fail
\* before any edge is connected: nodes, front and the connections stay as
\* they were and every edge of the gate node is still dangling.
DuplicateTargetRefused ==
  [][(/\ result'.op \in {"apply_double_gate", "apply_general_gate"}
      /\ Cardinality(Range(result'.index)) # Len(result'.index))
       => /\ result'.status = "AssertionError"
          /\ nodes' = nodes
          /\ front' = front
          /\ conn' = conn
          /\ \A p \in Ports(result'.gate) : IsDangling(conn', p)]_vars

\* C4 witness: a repeated target has been refused on a circuit that holds a
\* gate.
DuplicateTargetSeen ==
  /\ result.op = "apply_general_gate"
  /\ Len(result.index) = 2
  /\ result.index[1] = result.index[2]
  /\ result.status = "AssertionError"
  /\ Len(nodes) > nqubits

\* An extraction step succeeds and leaves nodes, front and the connections
\* of the live circuit as they were, with no projector among the nodes the
\* live network holds or is connected to; a gate application that follows an
\* extraction succeeds.
ExtractionFrame ==
  /\ result'.op \in ExtractOps =>
       /\ result'.status = "ok"
       /\ nodes' = nodes
       /\ front' = front
       /\ conn' = conn
       /\ \A nd \in NodesInUse' : nd[1] = "live" /\ nd[2] # "m"
  /\ (result.op \in ExtractOps /\ result'.op \in GateOps) =>
       result'.status = "ok"

\* After an extraction, the same extraction on the circuit as it now is
\* returns the same result.
ExtractionRepeats ==
  /\ result.op = "wavefunction" =>
       Wavefunction(Circuit).value = result.value
  /\ result.op = "amplitude" =>
       Amplitude(Circuit, nqubits, result.bits).value = result.value

\* C5: wavefunction() and amplitude(b) leave the live circuit unchanged,
\* keep the projectors out of it, return the same result when repeated, and
\* leave the circuit open to further gate applications.
ExtractionReadOnly == []ExtractionRepeats /\ [][ExtractionFrame]_vars

\* C5 witness: an amplitude has been extracted from a circuit that holds a
\* gate, after projectors were connected to the snapshot.
AmplitudeExtracted ==
  /\ result.op = "amplitude"
  /\ result.status = "ok"
  /\ Len(nodes) > nqubits
  /\ result.value # <<0>>

\* C6: in every state reached by valid gate applications, amplitude(b) is
\* entry int(b, 2) of wavefunction() for every bitstring b of nqubits
\* characters: qubit 0 is the most significant index.
AmplitudeIsWavefunctionEntry ==
  (result.op = "wavefunction" /\ result.status = "ok") =>
    /\ Len(result.value) = 2 ^ nqubits
    /\ \A b \in BitStrings :
         LET a == Amplitude(Circuit, nqubits, b)
         IN /\ a.status = "ok"
            /\ a.value = <<result.value[BitValue(b) + 1]>>

\* C6 witness: a wavefunction with a negative entry, and a nonzero entry
\* whose first and last qubit differ.
WavefunctionAsymmetric ==
  /\ result.op = "wavefunction"
  /\ result.status = "ok"
  /\ \E j \in 1 .. Len(result.value) : result.value[j] < 0
  /\ \E b \in BitStrings :
       /\ b[1] # b[nqubits]
       /\ result.value[BitValue(b) + 1] # 0

\* C7: a freshly constructed circuit is the all-zero basis state:
\* amplitude(b) is 1 for b all '0' and 0 for every other b, and
\* wavefunction() is 1 at index 0 and 0 elsewhere.
FreshCircuitIsAllZero ==
  Len(nodes) = nqubits =>
    /\ \A b \in BitStrings :
         Amplitude(Circuit, nqubits, b) =
           Extracted("ok", <<IF \A i \in 1 .. nqubits : b[i] = "0" THEN 1 ELSE 0>>,
                     conn)
    /\ Wavefunction(Circuit) =
         Extracted("ok",
                   [j \in 1 .. 2 ^ nqubits |-> IF j = 1 THEN 1 ELSE 0], conn)

\* C7 witness: the wavefunction of a fresh circuit of four qubits (two
\* interior boundary nodes in the routing chain) has been extracted.
FreshWavefunctionExtracted ==
  /\ nqubits = 4
  /\ Len(nodes) = nqubits
  /\ result.op = "wavefunction"
  /\ result.value[1] = 1

\* C8: amplitude() given a string of the wrong length, or with a character
\* other than '0' and '1' at any position, raises and returns no value.
BadBitstringRefused ==
  (/\ result.op = "amplitude"
   /\ \/ Len(result.bits) # nqubits
      \/ \E i \in 1 .. Len(result.bits) : result.bits[i] \notin Bits)
    => /\ result.status \in {"AssertionError", "IndexError"}
       /\ result.value = <<>>

\* C8 witness: a bad character in the first position, before good ones, has
\* been refused on a circuit that holds a gate.
BadFirstCharacterSeen ==
  /\ result.op = "amplitude"
  /\ Len(result.bits) = nqubits
  /\ result.bits[1] = "a"
  /\ result.status = "IndexError"
  /\ Len(nodes) > nqubits

\* C9: a step of apply_single_gate or apply_double_gate ends in the nodes,
\* front and connections (and outcome) apply_general_gate gives from the
\* same circuit for the same gate and targets.
SingleAndDoubleAreGeneral ==
  [][result'.op \in {"apply_single_gate", "apply_double_gate"} =>
       Outcome(nodes', front', conn', result'.status)
         = ApplyGeneralGate(Circuit, result'.gate, result'.index)]_vars

\* C9 witness: apply_double_gate has acted on a circuit that already held a
\* gate.
DoubleGateApplied ==
  /\ result.op = "apply_double_gate"
  /\ result.status = "ok"
  /\ Len(nodes) >= nqubits + 2

\* C10: every call of a named accessor with distinct in-range targets
\* succeeds and appends a gate node that nodes did not hold, so that no
\* node occurs twice in nodes.
AccessorCallsSucceed ==
  [][result'.op = "accessor" =>
       /\ result'.status = "ok"
       /\ result'.gate \notin Range(nodes)
       /\ nodes' = Append(nodes, result'.gate)
       /\ Cardinality(Range(nodes')) = Len(nodes')]_vars

\* C10 witness: an accessor called a second time has raised ValueError, its
\* node being in nodes already.
AccessorCalledAgain ==
  /\ result.op = "accessor"
  /\ result.status = "ValueError"
  /\ result.gate \in Range(nodes)

====
